---- MODULE Spec2Model ----
(***************************************************************************)
(* Model of genetic-sudoku: the grid model (Board, Row, Scorer), the       *)
(* puzzle file reader, the GA parameters, the population generator, the    *)
(* evolution engine and the per-generation simulation step.                *)
(*                                                                         *)
(* A Board<N> is a sequence of N rows, a Row<N> a sequence of N digits     *)
(* (u8).  A panic of the program is the value Panic.                       *)
(***************************************************************************)
EXTENDS Integers, Sequences, FiniteSets, TLC

VARIABLES
    scorer,      \* the Scorer under test: [seen, score]
    fed,         \* the digits checked so far by `scorer`, in order
    board,       \* a Board (the receiver of overlay / fitness)
    cand,        \* a Board (the argument of overlay)
    edits,       \* number of cell edits applied to `board`
    out,         \* result of the last grid operation: [op, value]
    file,        \* the puzzle file given to Board::read: [exists, text]
    loaded,      \* the last Board::<n>::read call: [n, result]
    args,        \* the arguments of the last GAParams::new call
    params,      \* the GAParams of the run / the result of GAParams::new
    generation,  \* the driver's generation counter (u64)
    base,        \* the base puzzle of the run
    population,  \* the current population (sequence of boards)
    outcome      \* what the last driver / generator call returned

vars == <<scorer, fed, board, cand, edits, out, file, loaded, args, params,
          generation, base, population, outcome>>

scorerVars == <<scorer, fed>>
fileVars   == <<file, loaded>>
boardVars  == <<board, cand, edits, out, fileVars>>
paramVars  == <<args, params>>
driverVars == <<generation, base, population, outcome>>

(* A panic of the program, as a value outside every unsigned range.        *)
Panic == 0 - 1

-----------------------------------------------------------------------------
(* Helpers                                                                 *)

Range(s) == {s[i] : i \in 1..Len(s)}

RECURSIVE Flatten(_)
Flatten(ss) == IF ss = <<>> THEN <<>> ELSE Head(ss) \o Flatten(Tail(ss))


(* u8 arithmetic: `+` on u8 wraps modulo 2^8 in a release build.           *)
U8Mod == 2 ^ 8
U8Add(a, b) == (a + b) % U8Mod

(* Width of Scorer.seen (u64): `1 << digit` masks the shift amount.        *)
U64Bits == 2 ^ 6

-----------------------------------------------------------------------------
(* Scorer (src/src/sudoku.rs, src/src/sudoku/inner.rs)                     *)

(* Scorer::default(): the bitmask `seen` is the set of its set bits.       *)
Scorer_default == [seen |-> {}, score |-> 0]

(* A mutation of check: the `else` is lost, the bit is set but a repeat is *)
(* counted only on the second repeat (seen tested after the update of a    *)
(* stale copy).                                                            *)
check_mut(s, digit) ==
    LET bit == {digit % U64Bits}
    IN  IF s.seen \cap bit # {}
        THEN [s EXCEPT !.score = U8Add(@, 1), !.seen = @ \ bit]
        ELSE [s EXCEPT !.seen = @ \cup bit]

(* Scorer::check *)
check(s, digit) ==
    LET bit == {digit % U64Bits}
    IN  IF s.seen \cap bit # {}
        THEN [s EXCEPT !.score = U8Add(@, 1)]
        ELSE [s EXCEPT !.seen = @ \cup bit]

(* Scorer::score *)
score(s) == s.score

(* One fresh Scorer fed every digit of a group, in order.                  *)
RECURSIVE check_all(_, _)
check_all(s, values) ==
    IF values = <<>> THEN s
    ELSE check_all(check(s, Head(values)), Tail(values))

-----------------------------------------------------------------------------
(* Board (src/src/sudoku.rs)                                               *)

(* Board::size *)
size(b) == Len(b)

(* A mutation of overlay: the candidate wins wherever it is non-blank.     *)
overlay_mut(self, other) ==
    [i \in 1..size(self) |->
        [j \in 1..size(self) |->
            IF other[i][j] = 0 THEN self[i][j] ELSE other[i][j]]]

(* Board::overlay *)
overlay(self, other) ==
    [i \in 1..size(self) |->
        [j \in 1..size(self) |->
            IF self[i][j] = 0 THEN other[i][j] ELSE self[i][j]]]

(* A mutation of transpose: the indices are not swapped                    *)
(* (`row.0[j] = self.0[i].0[j]` written into row i).                       *)
transpose_mut(self) ==
    [i \in 1..size(self) |-> [j \in 1..size(self) |-> self[i][j]]]

(* Board::transpose *)
transpose(self) ==
    [j \in 1..size(self) |-> [i \in 1..size(self) |-> self[i][j]]]

(* Board::count_row_duplicates: one fresh Scorer per row, u8 running total *)
RECURSIVE sum_scores(_, _)
sum_scores(total, groups) ==
    IF groups = <<>> THEN total
    ELSE LET next_total == U8Add(total, score(check_all(Scorer_default, Head(groups))))
         IN  IF next_total \in 0..(U8Mod - 1)   \* total_duplicates: u8
             THEN sum_scores(next_total, Tail(groups))
             ELSE Panic

count_row_duplicates(self) == sum_scores(0, self)

(* A mutation of box_size: an unsupported N gets boxes of one cell instead *)
(* of the panic.                                                           *)
box_size_mut(n) ==
    CASE n = 4 -> 2
      [] n = 9 -> 3
      [] n = 16 -> 4
      [] n = 25 -> 5
      [] OTHER -> 1

(* `match N { 4 => 2, 9 => 3, 16 => 4, 25 => 5, _ => panic!(..) }`         *)
box_size(n) ==
    CASE n = 4 -> 2
      [] n = 9 -> 3
      [] n = 16 -> 4
      [] n = 25 -> 5
      [] OTHER -> Panic

(* The cells of the box whose top-left cell is (row+1, col+1), in the      *)
(* order the two inner loops visit them.                                   *)
box_cells(row, col, bs) ==
    Flatten([r \in 1..bs |-> [c \in 1..bs |-> <<row + r, col + c>>]])

(* The digits of the box whose top-left cell is (row+1, col+1), in the     *)
(* order the nested loops visit them.                                      *)
box_values(self, row, col, bs) ==
    LET cells == box_cells(row, col, bs)
    IN  [k \in 1..Len(cells) |-> self[cells[k][1]][cells[k][2]]]

(* The top-left cells (0-based row, col) the two outer step_by loops       *)
(* visit, in order.                                                        *)
box_origins(n, bs) ==
    LET nb == n \div bs
    IN  [k \in 1..(nb * nb) |-> <<((k - 1) \div nb) * bs, ((k - 1) % nb) * bs>>]

(* The boxes the loops visit, each as its cells.                           *)
boxes_visited(n, bs) ==
    [k \in 1..Len(box_origins(n, bs)) |->
        box_cells(box_origins(n, bs)[k][1], box_origins(n, bs)[k][2], bs)]

(* Board::count_box_duplicates *)
count_box_duplicates(self) ==
    LET n  == size(self)
        bs == box_size(n)
    IN  IF bs = Panic THEN Panic
        ELSE sum_scores(0, [k \in 1..Len(box_origins(n, bs)) |->
                              box_values(self, box_origins(n, bs)[k][1],
                                               box_origins(n, bs)[k][2], bs)])

(* A mutation of fitness: the box term is weighted twice.                  *)
fitness_mut(self) ==
    LET boxes == count_box_duplicates(self)
    IN  IF boxes = Panic THEN Panic
        ELSE U8Add(U8Add(U8Add(count_row_duplicates(self),
                               count_row_duplicates(transpose(self))),
                         boxes), boxes)

(* Board::fitness *)
fitness(self) ==
    LET boxes == count_box_duplicates(self)
    IN  IF boxes = Panic THEN Panic
        ELSE U8Add(U8Add(count_row_duplicates(self),
                         count_row_duplicates(transpose(self))),
                   boxes)

-----------------------------------------------------------------------------
(* Board::read (src/src/sudoku.rs)                                         *)

(* The None of char::to_digit.                                             *)
NoDigit == 0 - 1

DecimalDigits == <<"0", "1", "2", "3", "4", "5", "6", "7", "8", "9">>

(* char::to_digit(10): the value of an ASCII decimal digit, None for any   *)
(* other character.                                                        *)
to_digit(ch) ==
    IF \E d \in 0..9 : DecimalDigits[d + 1] = ch
    THEN CHOOSE d \in 0..9 : DecimalDigits[d + 1] = ch
    ELSE NoDigit

(* str::split_inclusive('\n'): the pieces of the text, each ending with    *)
(* its newline, the last one without if the text does not end with one;    *)
(* `piece` is the piece being collected.                                   *)
RECURSIVE split_inclusive(_, _)
split_inclusive(piece, text) ==
    IF text = <<>> THEN (IF piece = <<>> THEN <<>> ELSE <<piece>>)
    ELSE IF Head(text) = "\n"
         THEN <<Append(piece, "\n")>> \o split_inclusive(<<>>, Tail(text))
         ELSE split_inclusive(Append(piece, Head(text)), Tail(text))

(* A piece without its line ending, "\n" or "\r\n"; a carriage return not  *)
(* followed by a newline stays.                                            *)
strip_line_ending(piece) ==
    LET k == Len(piece)
    IN  IF k = 0 \/ piece[k] # "\n" THEN piece
        ELSE IF k >= 2 /\ piece[k - 1] = "\r" THEN SubSeq(piece, 1, k - 2)
        ELSE SubSeq(piece, 1, k - 1)

(* str::lines *)
lines(text) ==
    LET pieces == split_inclusive(<<>>, text)
    IN  [k \in 1..Len(pieces) |-> strip_line_ending(pieces[k])]

(* The results of Board::read: Ok(board) or an io::Error of a kind.        *)
ReadOk(b) == [kind |-> "ok", error |-> "none", message |-> "none", board |-> b]

ReadErr(error, message) ==
    [kind |-> "err", error |-> error, message |-> message, board |-> <<>>]

format_error_rows == ReadErr("InvalidData", "invalid number of rows")

format_error_columns == ReadErr("InvalidData", "invalid number of columns")

format_error_char == ReadErr("InvalidData", "invalid character")

(* One row of Board::read: the characters in order, a character past the   *)
(* N-th being a column error and a non-digit a character error, then the   *)
(* count of parsed digits against N.                                       *)
read_row(n, line) ==
    LET bad == {i \in 1..Len(line) : i > n \/ to_digit(line[i]) = NoDigit}
        first == CHOOSE i \in bad : \A o \in bad : i <= o
    IN  IF bad # {}
        THEN (IF first > n THEN format_error_columns ELSE format_error_char)
        ELSE IF Len(line) # n THEN format_error_columns
        ELSE ReadOk([i \in 1..n |-> to_digit(line[i])])

(* The rows of Board::read from row r on: a missing line is a row error,   *)
(* and so is a line left over after the N-th row.                          *)
RECURSIVE read_rows(_, _, _, _)
read_rows(n, ls, r, board_array) ==
    IF r > n
    THEN (IF Len(ls) > n THEN format_error_rows ELSE ReadOk(board_array))
    ELSE IF r > Len(ls) THEN format_error_rows
    ELSE LET row == read_row(n, ls[r])
         IN  IF row.kind = "err" THEN row
             ELSE read_rows(n, ls, r + 1, Append(board_array, row.board))

(* A mutation of Board::read: the lines left over after the N-th row are   *)
(* not looked at.                                                          *)
read_mut(n, f) ==
    IF ~f.exists THEN ReadErr("NotFound", "none")
    ELSE LET ls == lines(f.text)
         IN  read_rows(n, SubSeq(ls, 1, IF Len(ls) > n THEN n ELSE Len(ls)), 1, <<>>)

(* Board::<N>::read(path): fs::read_to_string fails with NotFound on a     *)
(* missing file.                                                           *)
read(n, f) ==
    IF ~f.exists THEN ReadErr("NotFound", "none")
    ELSE read_rows(n, lines(f.text), 1, <<>>)

-----------------------------------------------------------------------------
(* GA parameters (src/src/genetics.rs)                                     *)

MAX_POPULATION == 100

(* Option<u64>::None for the restart interval.                             *)
NoRestart == 0 - 1

(* The f32 selection fraction is a pair <<num, den>>: the fractions of the *)
(* model are k/16 and 1/10, for which floor(population as f32 * frac) is   *)
(* the floor of the exact product for every population up to               *)
(* MAX_POPULATION + 2.  The f32 mutation rate is a number of sixteenths.   *)
RateDen == 2 ^ 4

PanicParams == [kind |-> "panic"]

(* A mutation of GAParams::new: the assert on MAX_POPULATION is missing.   *)
GAParams_new_mut(pop_size, frac_reduction, mutation_rate, restart) ==
    LET num_survivors == (pop_size * frac_reduction[1]) \div frac_reduction[2]
        num_parent_pairs == num_survivors \div 2
    IN  IF num_parent_pairs = 0 THEN PanicParams
        ELSE [kind |-> "params",
              population |-> pop_size,
              num_survivors |-> num_survivors,
              num_children_per_parent_pairs |-> pop_size \div num_parent_pairs,
              mutation_rate |-> mutation_rate,
              restart |-> restart]

(* GAParams::new: panics on the assert, and on the division by a zero      *)
(* num_parent_pairs.                                                       *)
GAParams_new(pop_size, frac_reduction, mutation_rate, restart) ==
    IF ~(pop_size <= MAX_POPULATION) THEN PanicParams
    ELSE
        LET num_survivors == (pop_size * frac_reduction[1]) \div frac_reduction[2]
            num_parent_pairs == num_survivors \div 2
        IN  IF num_parent_pairs = 0 THEN PanicParams
            ELSE [kind |-> "params",
                  population |-> pop_size,
                  num_survivors |-> num_survivors,
                  num_children_per_parent_pairs |-> pop_size \div num_parent_pairs,
                  mutation_rate |-> mutation_rate,
                  restart |-> restart]

-----------------------------------------------------------------------------
(* Random source and population generator (src/src/genetics.rs)            *)

(* All sequences whose k-th element is drawn from the k-th set.            *)
RECURSIVE Product(_)
Product(sets) ==
    IF sets = <<>> THEN {<<>>}
    ELSE {<<x>> \o rest : x \in Head(sets), rest \in Product(Tail(sets))}

(* A mutation of the sampling: the lower end of the range is dropped.      *)
Uniform_sample_mut(lo, hi, word) == word % (hi - lo + 1)

(* rng.sample(Uniform::from(lo..=hi)) for one raw word of the generator.   *)
Uniform_sample(lo, hi, word) == lo + (word % (hi - lo + 1))

(* The capacity M of ArrayVec<Board<N>, M>.                                *)
M == MAX_POPULATION

(* The boards one run of the two inner loops can build, words[i][j] being  *)
(* the raw words the generator may yield for cell (i, j).                  *)
random_boards(n, words) ==
    Product([i \in 1..n |->
        Product([j \in 1..n |-> {Uniform_sample(1, n, w) : w \in words[i][j]}])])

(* What a call that yields boards returns: the boards, or a panic.         *)
Boards(bs) == [kind |-> "boards", boards |-> bs]
PanicBoards == [kind |-> "panic", boards |-> <<>>]

(* generate_initial_population: every result it can have; it panics when   *)
(* u8::try_from(N) fails or a push exceeds the capacity M.                 *)
generate_initial_population(n, p, words) ==
    IF n > 255 \/ p.population > M THEN {PanicBoards}
    ELSE {Boards(bs) : bs \in Product([k \in 1..p.population |-> random_boards(n, words)])}

-----------------------------------------------------------------------------
(* Evolution engine and simulation step (src/src/genetics.rs)              *)

(* What run_simulation and next_generation return.  `survivors` and        *)
(* `restarted` record what the evolution step did; `index` is the position *)
(* of the candidate whose overlay is returned as the solution.             *)
Step(kind, at, boards, survivors, restarted, solution, index) ==
    [kind |-> kind, at |-> at, boards |-> boards, survivors |-> survivors,
     restarted |-> restarted, solution |-> solution, index |-> index]

PanicStep(at) == Step("panic", at, <<>>, <<>>, FALSE, <<>>, 0)

NextStep(boards, survivors, restarted) ==
    Step("next", "none", boards, survivors, restarted, <<>>, 0)

SolvedStep(solution, index) == Step("solved", "none", <<>>, <<>>, FALSE, solution, index)

(* The orders a sort by key can leave the indices S of the scored list in: *)
(* par_sort_unstable_by_key may put candidates of equal score in any order.*)
RECURSIVE sorted_orders(_, _)
sorted_orders(S, scores) ==
    IF S = {} THEN {<<>>}
    ELSE UNION {{<<k>> \o rest : rest \in sorted_orders(S \ {k}, scores)} :
                   k \in {m \in S : \A o \in S : scores[m][2] <= scores[o][2]}}

(* natural_selection: sort by score, then drain(..num_survivors), which    *)
(* panics when num_survivors exceeds the length of the list.               *)
natural_selection(p, population_scores) ==
    IF p.num_survivors > Len(population_scores) THEN {PanicBoards}
    ELSE {Boards([i \in 1..p.num_survivors |-> population_scores[order[i]][1]]) :
             order \in sorted_orders(1..Len(population_scores), population_scores)}

(* Option<Board<N>> *)
None == [some |-> FALSE, value |-> <<>>]

Some(b) == [some |-> TRUE, value |-> b]

(* into_iter().flatten() over a Vec<Option<_>>: the values of the Some     *)
(* entries, in order.                                                      *)
flatten(options) ==
    LET kept == SelectSeq(options, LAMBDA o : o.some)
    IN  [k \in 1..Len(kept) |-> kept[k].value]

(* zip of two indexed iterators: as long as the shorter one.               *)
zip(xs, ys) ==
    [i \in 1..(IF Len(xs) < Len(ys) THEN Len(xs) ELSE Len(ys)) |-> <<xs[i], ys[i]>>]

(* A mutation of make_parents: the parity test on an index counted from 1. *)
make_parents_mut(survivors) ==
    LET parents == [k \in 1..Len(survivors) |->
                      IF k % 2 = 0 THEN <<Some(survivors[k]), None>>
                      ELSE <<None, Some(survivors[k])>>]
        parents_x == flatten([k \in 1..Len(parents) |-> parents[k][1]])
        parents_y == flatten([k \in 1..Len(parents) |-> parents[k][2]])
    IN  zip(parents_x, parents_y)

(* make_parents: the survivor at index i (from 0) goes to (Some, None) for *)
(* an even i and to (None, Some) for an odd i; the two unzipped lists are  *)
(* flattened into parents_x and parents_y, and zipped.                     *)
make_parents(survivors) ==
    LET parents == [k \in 1..Len(survivors) |->
                      IF (k - 1) % 2 = 0 THEN <<Some(survivors[k]), None>>
                      ELSE <<None, Some(survivors[k])>>]
        parents_x == flatten([k \in 1..Len(parents) |-> parents[k][1]])
        parents_y == flatten([k \in 1..Len(parents) |-> parents[k][2]])
    IN  zip(parents_x, parents_y)

(* A mutation of the crossover of one cell: `<=` for `<` in the mutation   *)
(* test (as in src/src/main.rs).                                           *)
child_cell_mut(n, p, x, y, chance, word, inherit) ==
    IF chance <= p.mutation_rate THEN Uniform_sample(1, n, word)
    ELSE IF Uniform_sample(0, 1, inherit) = 0 THEN x ELSE y

(* One cell of a child: mutation_chance < mutation_rate mutates it, else   *)
(* it is inherited from parent x or parent y.                              *)
child_cell(n, p, x, y, chance, word, inherit) ==
    IF chance < p.mutation_rate THEN Uniform_sample(1, n, word)
    ELSE IF Uniform_sample(0, 1, inherit) = 0 THEN x ELSE y

(* A mutation of make_children: the loop over the children runs over an   *)
(* inclusive range, one child more per pair.                               *)
make_children_mut(n, p, parents, rnd) ==
    LET cells(i, j) ==
            {child_cell(n, p, parents[1][i][j], parents[2][i][j], c, w, h) :
                c \in rnd.chances[i][j], w \in rnd.words[i][j], h \in {0, 1}}
        children == Product([i \in 1..n |-> Product([j \in 1..n |-> cells(i, j)])])
    IN  Product([k \in 1..(p.num_children_per_parent_pairs + 1) |-> children])

(* make_children: every list of num_children_per_parent_pairs children the *)
(* pair can get, rnd.chances[i][j] and rnd.words[i][j] being the mutation  *)
(* chances (sixteenths) and raw words the generator may yield at (i, j).   *)
make_children(n, p, parents, rnd) ==
    LET cells(i, j) ==
            {child_cell(n, p, parents[1][i][j], parents[2][i][j], c, w, h) :
                c \in rnd.chances[i][j], w \in rnd.words[i][j], h \in {0, 1}}
        children == Product([i \in 1..n |-> Product([j \in 1..n |-> cells(i, j)])])
    IN  Product([k \in 1..p.num_children_per_parent_pairs |-> children])

(* next_generation: the restart test first (`generation % restart` panics  *)
(* for a restart of 0), then selection, pairing and crossover.             *)
next_generation(n, p, g, population_scores, rnd) ==
    IF p.restart # NoRestart /\ p.restart = 0 THEN {PanicStep("restart")}
    ELSE IF p.restart # NoRestart /\ g % p.restart = 0 /\ g # 0
    THEN {IF r.kind = "panic" THEN PanicStep("generate")
          ELSE NextStep(r.boards, <<>>, TRUE) :
             r \in generate_initial_population(n, p, rnd.words)}
    ELSE UNION {IF sel.kind = "panic" THEN {PanicStep("selection")}
                ELSE {NextStep(Flatten(kids), sel.boards, FALSE) :
                         kids \in Product([q \in 1..Len(make_parents(sel.boards)) |->
                                     make_children(n, p, make_parents(sel.boards)[q], rnd)])} :
                  sel \in natural_selection(p, population_scores)}

(* A mutation of the scoring: the candidates are scored as they are, not  *)
(* overlaid on the base.                                                   *)
population_scores_of_mut(b, pop) ==
    [k \in 1..Len(pop) |-> <<pop[k], fitness(pop[k])>>]

(* The (overlaid board, score) list of run_simulation.                     *)
population_scores_of(b, pop) ==
    [k \in 1..Len(pop) |-> <<overlay(b, pop[k]), fitness(overlay(b, pop[k]))>>]

(* A mutation of run_simulation: the candidate itself is returned in      *)
(* place of its overlay on the base.                                       *)
run_simulation_mut(p, g, b, pop, rnd) ==
    LET ps == population_scores_of(b, pop)
        zeros == {k \in 1..Len(ps) : ps[k][2] = 0}
    IN  IF \E k \in 1..Len(ps) : ps[k][2] = Panic THEN {PanicStep("fitness")}
        ELSE IF zeros # {} THEN {SolvedStep(pop[k], k) : k \in zeros}
        ELSE next_generation(size(b), p, g, ps, rnd)

(* run_simulation: the parallel collect into a Result returns one of the   *)
(* zero-score overlays if there is any, else the next generation.          *)
run_simulation(p, g, b, pop, rnd) ==
    LET ps == population_scores_of(b, pop)
        zeros == {k \in 1..Len(ps) : ps[k][2] = 0}
    IN  IF \E k \in 1..Len(ps) : ps[k][2] = Panic THEN {PanicStep("fitness")}
        ELSE IF zeros # {} THEN {SolvedStep(ps[k][1], k) : k \in zeros}
        ELSE next_generation(size(b), p, g, ps, rnd)

-----------------------------------------------------------------------------
(* Boards of the tests and benches                                         *)

(* src/src/sudoku.rs tests *)
GOOD_BOARD == <<<<1, 2, 3, 4>>, <<3, 4, 1, 2>>, <<4, 3, 2, 1>>, <<2, 1, 4, 3>>>>

BAD_BOARD == <<<<1, 2, 3, 4>>, <<1, 2, 3, 4>>, <<1, 2, 3, 4>>, <<1, 2, 3, 4>>>>

(* src/benches/benches.rs *)
EASY_4 == <<<<1, 0, 0, 4>>, <<0, 4, 1, 2>>, <<2, 0, 4, 3>>, <<4, 3, 0, 0>>>>

FITNESS_BOARD == [i \in 1..9 |-> [j \in 1..9 |-> 9]]

(* The overlay of test_board_overlay: every cell 1.                        *)
ONES_4 == [i \in 1..4 |-> [j \in 1..4 |-> 1]]

(* A solved 9 x 9 grid (rows shifted by 3, 3, 1, 3, 3, 1, 3, 3).           *)
SOLVED_9 ==
    [i \in 1..9 |->
        [j \in 1..9 |-> ((3 * ((i - 1) % 3) + ((i - 1) \div 3) + (j - 1)) % 9) + 1]]

-----------------------------------------------------------------------------
(* Scorer, driven one check at a time                                      *)

(* Longest digit sequence fed to one Scorer.                               *)
MaxChecks == 5

(* The digits fed: 1 and 2, and digits that collide with 1 in a narrower   *)
(* mask (17, 33, 49 are 1 modulo 16), up to the 49 of the tests.           *)
ScorerDigits == {1, 2, 17, 33, 49}

NoOut == [op |-> "none", score |-> 0, result |-> <<>>]

NoArgs == [population |-> 0, frac_reduction |-> <<0, 1>>, mutation_rate |-> 0,
           restart |-> Panic]

NoParams == [kind |-> "none"]

IdleScorer == scorer = Scorer_default /\ fed = <<>>
NoFile == [exists |-> FALSE, text |-> <<>>]

NoLoaded == [n |-> 0, result |-> [kind |-> "none", error |-> "none", message |-> "none",
                                   board |-> <<>>]]

IdleFile   == file = NoFile /\ loaded = NoLoaded
IdleBoard  == board = <<>> /\ cand = <<>> /\ edits = 0 /\ out = NoOut /\ IdleFile
IdleParams == args = NoArgs /\ params = NoParams
NoOutcome == Step("none", "none", <<>>, <<>>, FALSE, <<>>, 0)

IdleDriver == generation = 0 /\ base = <<>> /\ population = <<>>
              /\ outcome = NoOutcome

InitScorer == IdleScorer /\ IdleBoard /\ IdleParams /\ IdleDriver

(* scorer.check(digit) *)
Check(digit) ==
    /\ Len(fed) < MaxChecks
    /\ scorer' = check(scorer, digit)
    /\ fed' = Append(fed, digit)
    /\ UNCHANGED <<boardVars, paramVars, driverVars>>

(* scorer.score() consumes the Scorer; the next group gets a fresh one.    *)
Fresh ==
    /\ fed # <<>>
    /\ scorer' = Scorer_default
    /\ fed' = <<>>
    /\ UNCHANGED <<boardVars, paramVars, driverVars>>

NextScorer == (\E digit \in ScorerDigits : Check(digit)) \/ Fresh

SpecScorer == InitScorer /\ [][NextScorer]_vars

-----------------------------------------------------------------------------
(* Grid operations on boards a bounded number of cell edits away from the  *)
(* boards of the tests                                                     *)

(* Most cells changed on one seed board.                                   *)
MaxEdits == 2

SeedBoards == {GOOD_BOARD, BAD_BOARD, EASY_4, SOLVED_9, FITNESS_BOARD}

(* The overlay arguments tried with a base of size n.                      *)
CandSeeds(n) == IF n = 4 THEN {ONES_4, GOOD_BOARD, EASY_4} ELSE {SOLVED_9}

(* The cells edited: the first corner, its two neighbours and the last     *)
(* corner.                                                                 *)
EditCells(n) == {<<1, 1>>, <<1, 2>>, <<2, 1>>, <<n, n>>}

InitBoard ==
    /\ IdleScorer /\ IdleParams /\ IdleDriver /\ IdleFile
    /\ board \in SeedBoards
    /\ cand \in CandSeeds(size(board))
    /\ edits = 0
    /\ out = NoOut

(* A board is built with another digit (0..N) in one cell.                 *)
SetCell(c, v) ==
    /\ edits < MaxEdits
    /\ v # board[c[1]][c[2]]
    /\ board' = [board EXCEPT ![c[1]][c[2]] = v]
    /\ edits' = edits + 1
    /\ out' = NoOut
    /\ UNCHANGED <<cand, fileVars, scorerVars, paramVars, driverVars>>

(* board.fitness() *)
Fitness ==
    /\ out' = [op |-> "fitness", score |-> fitness(board), result |-> <<>>]
    /\ UNCHANGED <<board, cand, edits, fileVars, scorerVars, paramVars, driverVars>>

(* board.overlay(&cand) *)
Overlay ==
    /\ out' = [op |-> "overlay", score |-> 0, result |-> overlay(board, cand)]
    /\ UNCHANGED <<board, cand, edits, fileVars, scorerVars, paramVars, driverVars>>

(* board.transpose() *)
Transpose ==
    /\ out' = [op |-> "transpose", score |-> 0, result |-> transpose(board)]
    /\ UNCHANGED <<board, cand, edits, fileVars, scorerVars, paramVars, driverVars>>

NextBoard ==
    \/ \E c \in EditCells(size(board)) : \E v \in 0..size(board) : SetCell(c, v)
    \/ Fitness
    \/ Overlay
    \/ Transpose

SpecBoard == InitBoard /\ [][NextBoard]_vars

-----------------------------------------------------------------------------
(* Box scoring on boards of every size up to MaxBoxN                       *)

(* Largest board size N tried.                                             *)
MaxBoxN == 26

(* The boards of size n tried: all blank, all 1, and the cyclic Latin      *)
(* square.                                                                 *)
BoxBoards(n) ==
    {[i \in 1..n |-> [j \in 1..n |-> 0]],
     [i \in 1..n |-> [j \in 1..n |-> 1]],
     [i \in 1..n |-> [j \in 1..n |-> ((i + j - 2) % n) + 1]]}

(* A 16x16 board that is no solution: a valid grid with its first nine     *)
(* rows and columns overwritten by 1 and the first twelve cells of its     *)
(* last row by 16.                                                         *)
WRAP_16 ==
    [i \in 1..16 |-> [j \in 1..16 |->
        IF i <= 9 /\ j <= 9 THEN 1
        ELSE IF i = 16 /\ j <= 12 THEN 16
        ELSE ((4 * ((i - 1) % 4) + ((i - 1) \div 4) + (j - 1)) % 16) + 1]]

InitBox ==
    /\ IdleScorer /\ IdleParams /\ IdleDriver /\ IdleFile
    /\ \E n \in 0..MaxBoxN : board \in BoxBoards(n) \cup (IF n = 16 THEN {WRAP_16} ELSE {})
    /\ cand = <<>>
    /\ edits = 0
    /\ out = NoOut

(* board.count_box_duplicates() *)
CountBoxDuplicates ==
    /\ out' = [op |-> "boxes", score |-> count_box_duplicates(board), result |-> <<>>]
    /\ UNCHANGED <<board, cand, edits, fileVars, scorerVars, paramVars, driverVars>>

NextBox == CountBoxDuplicates \/ Fitness

SpecBox == InitBox /\ [][NextBox]_vars

-----------------------------------------------------------------------------
(* Board::read, on small puzzle files                                      *)

(* Longest puzzle text, in characters.                                     *)
MaxText == 6

(* The characters of the texts: two digits, a letter, and the two line     *)
(* ending characters.                                                      *)
TextChars == {"0", "1", "A", "\n", "\r"}

ReadSizes == {1, 2}

Texts == UNION {[1..k -> TextChars] : k \in 0..MaxText}

InitRead ==
    /\ IdleScorer /\ IdleParams /\ IdleDriver
    /\ board = <<>> /\ cand = <<>> /\ edits = 0 /\ out = NoOut
    /\ file \in {NoFile} \cup {[exists |-> TRUE, text |-> t] : t \in Texts}
    /\ loaded = NoLoaded

(* Board::<n>::read(&file.path) *)
Read(n) ==
    /\ loaded.n = 0
    /\ loaded' = [n |-> n, result |-> read(n, file)]
    /\ UNCHANGED <<file, board, cand, edits, out, scorerVars, paramVars, driverVars>>

NextRead == \E n \in ReadSizes : Read(n)

SpecRead == InitRead /\ [][NextRead]_vars


-----------------------------------------------------------------------------
(* What the claim about Board::read speaks of                              *)

(* The line endings of a text: a newline, or a carriage return and a       *)
(* newline.                                                                *)
LineEndings == {<<"\n">>, <<"\r", "\n">>}

(* The well-formed puzzle texts of size n with the boards they spell:      *)
(* n lines of n decimal digits each, every line but the last ended by a    *)
(* line ending, the last one ended by one or not.                          *)
WellFormed(n) ==
    {[board |-> b,
      text |-> Flatten([k \in 1..(2 * n) |->
                  IF k % 2 = 1
                  THEN [j \in 1..n |-> DecimalDigits[b[(k + 1) \div 2][j] + 1]]
                  ELSE e[k \div 2]])] :
        b \in [1..n -> [1..n -> {0, 1}]],
        e \in {f \in [1..n -> LineEndings \cup {<<>>}] :
                  \A k \in 1..(n - 1) : f[k] # <<>>}}

(* C15: Board::<N>::read returns a board iff the text has exactly N lines  *)
(* of exactly N decimal digits each, and the board holds those digits; any *)
(* other text yields an InvalidData error and no board, and a missing file *)
(* a NotFound error.                                                       *)
C15_ReadAcceptsExactlyWellFormed ==
    loaded.n # 0 =>
        LET res == loaded.result
            spelled == {w \in WellFormed(loaded.n) : w.text = file.text}
        IN  /\ res.kind \in {"ok", "err"}
            /\ res.kind = "ok" <=> (file.exists /\ spelled # {})
            /\ res.kind = "ok" => \A w \in spelled : res.board = w.board
            /\ (file.exists /\ spelled = {}) =>
                  res.error = "InvalidData" /\ res.board = <<>>
            /\ ~file.exists => res.error = "NotFound" /\ res.board = <<>>

(* C15 witness: a 2x2 text whose lines differ, the first ended by a        *)
(* carriage return and a newline, read into the board it spells.           *)
C15_Witness ==
    /\ loaded.n = 2 /\ loaded.result.kind = "ok"
    /\ file.text = <<"0", "1", "\r", "\n", "0", "0">>
    /\ loaded.result.board = <<<<0, 1>>, <<0, 0>>>>

-----------------------------------------------------------------------------
(* What the claims speak of, defined without the Scorer                    *)

RECURSIVE SumOver(_, _)
SumOver(S, f) ==
    IF S = {} THEN 0
    ELSE LET x == CHOOSE y \in S : TRUE IN f[x] + SumOver(S \ {x}, f)

Root(n) == CHOOSE k \in 1..n : k * k = n

RowCells(n) == {{<<i, j>> : j \in 1..n} : i \in 1..n}
ColCells(n) == {{<<i, j>> : i \in 1..n} : j \in 1..n}
BoxCells(n) ==
    {{<<i, j>> \in (1..n) \X (1..n) :
          (i - 1) \div Root(n) = p[1] /\ (j - 1) \div Root(n) = p[2]} :
       p \in (0..(Root(n) - 1)) \X (0..(Root(n) - 1))}

ValuesAt(b, cells) == {b[c[1]][c[2]] : c \in cells}

(* The duplicates of one group: its size minus its distinct values.        *)
Duplicates(b, groups) ==
    SumOver(groups, [g \in groups |-> Cardinality(g) - Cardinality(ValuesAt(b, g))])

(* Every row, column and box is a permutation of 1..N.                     *)
ValidSolution(b) ==
    \A g \in RowCells(size(b)) \cup ColCells(size(b)) \cup BoxCells(size(b)) :
        ValuesAt(b, g) = 1..size(b)

(* C2: fitness(G) = 0 exactly when every row, column and box of G is a     *)
(* permutation of 1..N, for grids with cells in 0..N.                      *)
C2_FitnessZeroIffValid ==
    out.op = "fitness" => ((out.score = 0) <=> ValidSolution(board))

(* C2, for grids without blanks (cells in 1..N): fitness(G) = 0 exactly    *)
(* when every row, column and box of G is a permutation of 1..N.           *)
C2_ZeroIffValidWithoutBlanks ==
    (out.op = "fitness" /\ \A i, j \in 1..size(board) : board[i][j] # 0) =>
        ((out.score = 0) <=> ValidSolution(board))

C4_OverlayKeepsFixedCells ==
    [][out'.op = "overlay" =>
          /\ board' = board /\ cand' = cand
          /\ Len(out'.result) = size(board)
          /\ \A i \in 1..size(board) :
                /\ Len(out'.result[i]) = size(board)
                /\ \A j \in 1..size(board) :
                      /\ board[i][j] # 0 => out'.result[i][j] = board[i][j]
                      /\ board[i][j] = 0 => out'.result[i][j] = cand[i][j]]_vars

(* An overlay of a base with a blank cell and with a fixed cell over which *)
(* the candidate holds another non-zero digit.                             *)
C4_Witness ==
    /\ out.op = "overlay"
    /\ \E i, j \in 1..size(board) : board[i][j] = 0 /\ cand[i][j] # 0
    /\ \E i, j \in 1..size(board) :
          board[i][j] # 0 /\ cand[i][j] # 0 /\ cand[i][j] # board[i][j]

(* C11: transpose(transpose(G)) = G for every grid G, and                  *)
(* transpose(G)[j][i] = G[i][j] for every cell (i, j).                     *)
C11_TransposeIsInvolution ==
    out.op = "transpose" =>
        /\ transpose(out.result) = board
        /\ size(out.result) = size(board)
        /\ \A i, j \in 1..size(board) : out.result[j][i] = board[i][j]

(* The transpose of a board that is not symmetric: GOOD_BOARD with one     *)
(* cell changed, whose transpose differs from it.                          *)
C11_Witness ==
    /\ out.op = "transpose" /\ edits = 1
    /\ size(board) = 4 /\ board[1][2] = 2 /\ board[2][1] = 3
    /\ out.result[1][2] = 3 /\ out.result[2][1] = 2
    /\ out.result # board

SupportedSizes == {4, 9, 16, 25}

(* The boxes visited are n sets of n cells each, pairwise disjoint, that   *)
(* cover the grid, each spanning Root(n) rows and Root(n) columns.         *)
BoxesPartition(n, boxes) ==
    LET sets == {Range(boxes[k]) : k \in 1..Len(boxes)}
    IN  /\ Len(boxes) = n /\ Cardinality(sets) = n
        /\ \A k \in 1..Len(boxes) :
              /\ Len(boxes[k]) = n /\ Cardinality(Range(boxes[k])) = n
              /\ Cardinality({c[1] : c \in Range(boxes[k])}) = Root(n)
              /\ Cardinality({c[2] : c \in Range(boxes[k])}) = Root(n)
        /\ \A a, b \in sets : a # b => a \cap b = {}
        /\ UNION sets = (1..n) \X (1..n)
        /\ sets = BoxCells(n)

(* C12: count_box_duplicates, and so fitness, panics for every N outside   *)
(* {4, 9, 16, 25} and never returns a score for such N; for N in           *)
(* {4, 9, 16, 25} the boxes it scores are N disjoint sqrt(N) x sqrt(N)     *)
(* boxes that cover every cell exactly once.                               *)
C12_BoxScoringFailsFast ==
    LET n == size(board)
    IN  /\ out.op \in {"boxes", "fitness"} =>
              ((out.score = Panic) <=> (n \notin SupportedSizes))
        /\ (out.op = "boxes" /\ n \in SupportedSizes) =>
              /\ BoxesPartition(n, boxes_visited(n, box_size(n)))
              /\ out.score = Duplicates(board, BoxCells(n)) % U8Mod

(* Box scoring was asked of an 8 x 8 board and panicked.                   *)
C12_Witness ==
    /\ out.op = "boxes" /\ size(board) = 8 /\ out.score = Panic
    /\ board[1][1] = 1 /\ board[1][2] = 2

(* C22: for the supported sizes the 8-bit fitness never overflows: the     *)
(* row, column and box duplicate totals and their sum stay <= 255, the     *)
(* score returned is the true duplicate count, and no board that has       *)
(* duplicates scores 0.                                                    *)
C22_ScoreNeverOverflows ==
    (out.op = "fitness" /\ size(board) \in SupportedSizes) =>
        LET n == size(board)
            rows == Duplicates(board, RowCells(n))
            cols == Duplicates(board, ColCells(n))
            boxes == Duplicates(board, BoxCells(n))
        IN  /\ rows <= U8Mod - 1 /\ cols <= U8Mod - 1 /\ boxes <= U8Mod - 1
            /\ rows + cols + boxes <= U8Mod - 1
            /\ out.score = rows + cols + boxes
            /\ out.score = 0 => rows + cols + boxes = 0

(* C22, for the sizes 4 and 9: there the totals and their sum stay <= 255  *)
(* and the score returned is the true duplicate count.                     *)
C22_NoOverflowUpToNine ==
    (out.op = "fitness" /\ size(board) \in {4, 9}) =>
        LET n == size(board)
            total == Duplicates(board, RowCells(n)) + Duplicates(board, ColCells(n))
                       + Duplicates(board, BoxCells(n))
        IN  total <= 3 * n * (n - 1) /\ 3 * n * (n - 1) <= U8Mod - 1 /\ out.score = total

(* C10: a fresh Scorer fed pairwise distinct digits scores 0; a check of a *)
(* digit already seen adds exactly 1 and a check of an unseen digit adds   *)
(* nothing, so the score is the number of repeats ([1,1,2,2,2] scores 3),  *)
(* for digits up to 49.                                                    *)
C10_ScorerCountsRepeats ==
    /\ score(scorer) = Len(fed) - Cardinality(Range(fed))
    /\ (Cardinality(Range(fed)) = Len(fed) => score(scorer) = 0)
    /\ (fed = <<1, 1, 2, 2, 2>> => score(scorer) = 3)

C10_Witness == fed = <<1, 1, 2, 49, 49>> /\ score(scorer) = 2

-----------------------------------------------------------------------------
(* GAParams::new over its inputs                                           *)

PopulationInputs == 0..(MAX_POPULATION + 2)

FractionInputs == {<<k, RateDen>> : k \in 0..(RateDen + RateDen \div 2)} \cup {<<1, 10>>}

MutationInputs == {0, 1, RateDen}

RestartInputs == {NoRestart, 0, 1, 2}

InitParams ==
    /\ IdleScorer /\ IdleBoard /\ IdleDriver
    /\ args \in [population : PopulationInputs, frac_reduction : FractionInputs,
                 mutation_rate : MutationInputs, restart : RestartInputs]
    /\ params = NoParams

(* GAParams::new(population, frac_reduction, mutation_rate, restart) *)
New ==
    /\ params = NoParams
    /\ params' = GAParams_new(args.population, args.frac_reduction,
                              args.mutation_rate, args.restart)
    /\ UNCHANGED <<args, scorerVars, boardVars, driverVars>>

NextParams == New

SpecParams == InitParams /\ [][NextParams]_vars

(* C8: GAParams construction fails exactly when the population exceeds     *)
(* MAX_POPULATION or the derived parent-pair count floor(floor(P*s)/2) is  *)
(* zero (population 2 with fraction 0.1), and succeeds on every other      *)
(* input.                                                                  *)
C8_ConstructionFailsExactlyWhen ==
    params # NoParams =>
        LET P == args.population
            s == args.frac_reduction
            pairs == ((P * s[1]) \div s[2]) \div 2
        IN  /\ (P > MAX_POPULATION \/ pairs = 0) <=> params = PanicParams
            /\ ~(P > MAX_POPULATION \/ pairs = 0) =>
                  params.kind = "params" /\ params.population = P
            /\ (P = 2 /\ s = <<1, 10>>) => params = PanicParams

C8_Witness ==
    args.population = 2 /\ args.frac_reduction = <<1, 10>> /\ params = PanicParams

-----------------------------------------------------------------------------
(* generate_initial_population alone, on small grids                       *)

(* Largest population generated.                                           *)
MaxGenPopulation == 3

(* Largest raw word of the random generator.                               *)
MaxWord == 3

GenSizes == {1, 2}

AllWords(n) == [i \in 1..n |-> [j \in 1..n |-> 0..MaxWord]]

InitGen ==
    /\ IdleScorer /\ IdleBoard /\ IdleDriver
    /\ args = NoArgs
    /\ params \in {GAParams_new(P, <<RateDen, RateDen>>, 0, NoRestart) :
                      P \in 2..MaxGenPopulation}

(* generate_initial_population::<N, M>(&params) *)
Generate(n) ==
    /\ outcome.kind = "none"
    /\ \E r \in generate_initial_population(n, params, AllWords(n)) :
          /\ r.kind = "boards"
          /\ population' = r.boards
    /\ outcome' = Step("generated", "none", <<>>, <<>>, FALSE, <<>>, n)
    /\ UNCHANGED <<generation, base, args, params, scorerVars, boardVars>>

NextGen == \E n \in GenSizes : Generate(n)

SpecGen == InitGen /\ [][NextGen]_vars

(* C9: generate_initial_population returns exactly population_size boards  *)
(* and every cell of every board is a digit in 1..N.                       *)
C9_InitialPopulationIsFull ==
    outcome.kind = "generated" =>
        /\ Len(population) = params.population
        /\ \A k \in 1..Len(population) :
              /\ Len(population[k]) = outcome.index
              /\ \A i \in 1..outcome.index :
                    /\ Len(population[k][i]) = outcome.index
                    /\ \A j \in 1..outcome.index : population[k][i][j] \in 1..outcome.index

(* A generated population holding both ends of the digit range.            *)
C9_Witness ==
    /\ outcome.kind = "generated" /\ outcome.index = 2
    /\ Len(population) = 3
    /\ population[1][1][1] = 1 /\ population[3][2][2] = 2

-----------------------------------------------------------------------------
(* The generation loop: an initial population, then run_simulation on the  *)
(* population the previous call returned, the generation counter going up  *)
(* by one per call, until a solution is returned.                          *)

(* Most calls of run_simulation in one run.                                *)
MaxGenerations == 3

(* Small populations run with every fraction, mutation rate and restart   *)
(* interval; larger ones without mutation and without restart.             *)
SmallPopulations == {2, 3}

DriverFractions == {<<8, RateDen>>, <<13, RateDen>>, <<RateDen, RateDen>>}

DriverMutations == {0, 1}

DriverRestarts == {NoRestart, 0, 2}

LargeInputs == {<<4, <<RateDen, RateDen>>>>, <<5, <<13, RateDen>>>>,
                <<5, <<RateDen, RateDen>>>>}

(* The arguments GAParams::new is called with, those it panics on left    *)
(* out.                                                                    *)
DriverArgs ==
    {a \in ({[population |-> P, frac_reduction |-> s, mutation_rate |-> m, restart |-> r] :
                P \in SmallPopulations, s \in DriverFractions,
                m \in DriverMutations, r \in DriverRestarts}
            \cup {[population |-> in[1], frac_reduction |-> in[2], mutation_rate |-> 0,
                   restart |-> NoRestart] : in \in LargeInputs}) :
        GAParams_new(a.population, a.frac_reduction, a.mutation_rate, a.restart)
            # PanicParams}

(* The completion of EASY_4: its blank cells filled in the one valid way.  *)
EASY_4_SOLVED == <<<<1, 2, 3, 4>>, <<3, 4, 1, 2>>, <<2, 1, 4, 3>>, <<4, 3, 2, 1>>>>

(* A puzzle with two solutions: GOOD_BOARD with the cells (1,1), (1,3),    *)
(* (2,1), (2,3) blank; its other solution swaps the digits 1 and 3 there.  *)
AMBIGUOUS_4 == <<<<0, 2, 0, 4>>, <<0, 4, 0, 2>>, <<4, 3, 2, 1>>, <<2, 1, 4, 3>>>>

(* The random streams of a run on EASY_4: the generator yields the digits  *)
(* of EASY_4_SOLVED, except at the blank cell (1, 2),                      *)
(* where it yields 1, 2 or 3 (2 or 3 for the larger populations), and,     *)
(* for a population of two, at the fixed cell (1, 1), where it yields 1    *)
(* or 4 (as it does for the end-to-end run, a population of four halved by *)
(* selection); a mutation chance below the rate is drawn at these cells    *)
(* only.                                                                   *)
(* On AMBIGUOUS_4 the generator yields the digits of GOOD_BOARD, except at *)
(* the four blank cells, where it yields 1 or 3, and no mutation chance is *)
(* below the rate.                                                         *)
DriverRnd(p) ==
    LET small == p.population \in SmallPopulations
        pair == p.population = 2 \/ (p.population = 4 /\ p.num_survivors = 2)
    IN  IF base = AMBIGUOUS_4
        THEN [words |-> [i \in 1..4 |-> [j \in 1..4 |->
                          IF AMBIGUOUS_4[i][j] = 0 THEN {0, 2}
                          ELSE {GOOD_BOARD[i][j] - 1}]],
              chances |-> [i \in 1..4 |-> [j \in 1..4 |-> {RateDen - 1}]]]
        ELSE
        [words |-> [i \in 1..4 |-> [j \in 1..4 |->
                      IF <<i, j>> = <<1, 2>> THEN (IF small THEN {0, 1, 2} ELSE {1, 2})
                      ELSE IF <<i, j>> = <<1, 1>> THEN (IF pair THEN {0, 3} ELSE {0})
                      ELSE {EASY_4_SOLVED[i][j] - 1}]],
         chances |-> [i \in 1..4 |-> [j \in 1..4 |->
                      IF <<i, j>> = <<1, 2>> \/ (pair /\ <<i, j>> = <<1, 1>>)
                      THEN {0, RateDen - 1}
                      ELSE {RateDen - 1}]]]

Init ==
    /\ IdleScorer /\ IdleBoard
    /\ args \in DriverArgs
    /\ params = GAParams_new(args.population, args.frac_reduction,
                             args.mutation_rate, args.restart)
    /\ base = EASY_4
    /\ generation = 0
    /\ population \in {r.boards : r \in generate_initial_population(4, params, DriverRnd(params).words)}
    /\ outcome = NoOutcome

(* match run_simulation(&params, generation, &base, population) *)
RunSimulation ==
    /\ outcome.kind \in {"none", "next"}
    /\ generation < MaxGenerations
    /\ \E r \in run_simulation(params, generation, base, population, DriverRnd(params)) :
          /\ outcome' = r
          /\ population' = IF r.kind = "next" THEN r.boards ELSE population
          /\ generation' = IF r.kind = "next" THEN generation + 1 ELSE generation
    /\ UNCHANGED <<base, args, params, scorerVars, boardVars>>

Next == RunSimulation

Spec == Init /\ [][Next]_vars

(* A run on the puzzle with two solutions: a population of two, every      *)
(* survivor kept, no mutation and no restart.                              *)
InitTie ==
    /\ IdleScorer /\ IdleBoard
    /\ args = [population |-> 2, frac_reduction |-> <<RateDen, RateDen>>,
               mutation_rate |-> 0, restart |-> NoRestart]
    /\ params = GAParams_new(args.population, args.frac_reduction,
                             args.mutation_rate, args.restart)
    /\ base = AMBIGUOUS_4
    /\ generation = 0
    /\ population \in {r.boards : r \in generate_initial_population(4, params, DriverRnd(params).words)}
    /\ outcome = NoOutcome

SpecTie == InitTie /\ [][Next]_vars

(* The end-to-end run of the benches, scaled down: EASY_4 with a           *)
(* population of four, selection 0.5, mutation 1/16 and no restart.        *)
InitEndToEnd ==
    /\ IdleScorer /\ IdleBoard
    /\ args = [population |-> 4, frac_reduction |-> <<8, RateDen>>,
               mutation_rate |-> 1, restart |-> NoRestart]
    /\ params = GAParams_new(args.population, args.frac_reduction,
                             args.mutation_rate, args.restart)
    /\ base = EASY_4
    /\ generation = 0
    /\ population \in {r.boards : r \in generate_initial_population(4, params, DriverRnd(params).words)}
    /\ outcome = NoOutcome

SpecEndToEnd == InitEndToEnd /\ [][Next]_vars

-----------------------------------------------------------------------------
(* make_parents, on short survivor lists                                   *)

(* Longest survivor list paired.                                           *)
MaxSurvivors == 5

SurvivorBoards == {GOOD_BOARD, BAD_BOARD, EASY_4_SOLVED}

InitPairs ==
    /\ IdleScorer /\ IdleBoard /\ IdleParams
    /\ generation = 0 /\ base = <<>>
    /\ population \in UNION {[1..k -> SurvivorBoards] : k \in 0..MaxSurvivors}
    /\ outcome = NoOutcome

(* make_parents(survivors) *)
MakeParents ==
    /\ outcome.kind = "none"
    /\ outcome' = Step("paired", "none", make_parents(population), population, FALSE, <<>>, 0)
    /\ UNCHANGED <<population, generation, base, scorerVars, boardVars, paramVars>>

NextPairs == MakeParents

SpecPairs == InitPairs /\ [][NextPairs]_vars

-----------------------------------------------------------------------------
(* What the claims about the simulation step speak of                      *)

(* The scored list of the call about to be made.                           *)
Scored == population_scores_of(base, population)

SomeOverlaySolves == \E k \in 1..Len(population) : fitness(overlay(base, population[k])) = 0

(* A call has just returned or panicked.                                   *)
Called == outcome' # outcome \/ generation' # generation

(* floor(population_size x selection_fraction), from the arguments of      *)
(* construction.                                                           *)
FloorSurvivors == (args.population * args.frac_reduction[1]) \div args.frac_reduction[2]

(* g is a positive multiple of r.                                          *)
PositiveMultiple(g, r) == g > 0 /\ \E k \in 1..g : g = k * r

RestartDue == params.restart # NoRestart /\ PositiveMultiple(generation, params.restart)

(* How many entries of the sequence s satisfy Test.                        *)
CountIn(s, Test(_)) == Cardinality({k \in 1..Len(s) : Test(s[k])})

(* The survivors are entries of the scored list, and none of them scores   *)
(* more than an entry left behind.                                         *)
SurvivorsAreBest(scored, survivors) ==
    LET inList(bd) == \E e \in 1..Len(scored) : scored[e][1] = bd
        scoreOf == [k \in 1..Len(survivors) |->
                      scored[CHOOSE e \in 1..Len(scored) : scored[e][1] = survivors[k]][2]]
        left == [k \in 1..Len(scored) |->
                    CountIn(scored, LAMBDA e : e[2] = scored[k][2])
                      - Cardinality({q \in 1..Len(survivors) : scoreOf[q] = scored[k][2]})]
    IN  /\ \A k \in 1..Len(survivors) : inList(survivors[k])
        /\ \A k \in 1..Len(scored) : left[k] >= 0
        /\ \A k \in 1..Len(scored), q \in 1..Len(survivors) :
              left[k] > 0 => scoreOf[q] <= scored[k][2]

(* The boards are the children of the pairs (survivors[2q-1], survivors[2q]), *)
(* perPair children for each pair in turn.                                 *)
ChildrenOfPairs(boards, survivors, perPair, Ok(_, _, _)) ==
    /\ Len(boards) = (Len(survivors) \div 2) * perPair
    /\ \A q \in 1..(Len(survivors) \div 2), c \in 1..perPair :
          Ok(boards[(q - 1) * perPair + c], survivors[2 * q - 1], survivors[2 * q])

(* Every cell of the child is the cell of one of its parents.              *)
Inherited(n, child, X, Y) ==
    /\ Len(child) = n
    /\ \A i \in 1..n :
          /\ Len(child[i]) = n
          /\ \A j \in 1..n : child[i][j] \in {X[i][j], Y[i][j]}

(* C1: run_simulation returns the solution iff some overlay has fitness 0, *)
(* the solution being base.overlay(c) for a candidate c, of fitness 0 and  *)
(* agreeing with every fixed cell of base; otherwise it returns the        *)
(* no-solution result carrying the next population.                        *)
C1_RunSimulationContract ==
    [][Called =>
          /\ (outcome'.kind = "solved") <=> SomeOverlaySolves
          /\ outcome'.kind = "solved" =>
                /\ \E k \in 1..Len(population) : outcome'.solution = overlay(base, population[k])
                /\ fitness(outcome'.solution) = 0
                /\ \A i \in 1..size(base), j \in 1..size(base) :
                      base[i][j] # 0 => outcome'.solution[i][j] = base[i][j]
          /\ ~SomeOverlaySolves => outcome'.kind = "next"]_vars

(* C1, for the calls that return: the contract above holds whenever        *)
(* run_simulation does not panic.                                          *)
C1_ContractWhenReturns ==
    [][(Called /\ outcome'.kind # "panic") =>
          /\ (outcome'.kind = "solved") <=> SomeOverlaySolves
          /\ outcome'.kind = "solved" =>
                /\ \E k \in 1..Len(population) : outcome'.solution = overlay(base, population[k])
                /\ fitness(outcome'.solution) = 0
                /\ \A i \in 1..size(base), j \in 1..size(base) :
                      base[i][j] # 0 => outcome'.solution[i][j] = base[i][j]
          /\ ~SomeOverlaySolves => outcome'.kind = "next"]_vars

(* The lowest index of a candidate whose overlay scores 0.                 *)
FirstSolving ==
    CHOOSE k \in 1..Len(population) :
        /\ fitness(overlay(base, population[k])) = 0
        /\ \A m \in 1..(k - 1) : fitness(overlay(base, population[m])) # 0

(* C13: when several candidates overlay to a zero-score board, the         *)
(* solution returned is the zero-score overlay of the lowest-index         *)
(* candidate, whatever the interleaving of the parallel fitness workers.   *)
C13_FirstSolutionInEncounterOrder ==
    [][(Called /\ outcome'.kind = "solved") =>
          outcome'.solution = overlay(base, population[FirstSolving])]_vars

(* The board agrees with every fixed cell of the puzzle.                    *)
AgreesWithFixed(puzzle, b) ==
    \A i \in 1..size(puzzle), j \in 1..size(puzzle) :
        puzzle[i][j] # 0 => b[i][j] = puzzle[i][j]

C16_SelectionNeverOutOfRange ==
    /\ outcome.at # "selection"
    /\ outcome.kind \in {"none", "next"} => Len(population) >= params.num_survivors

(* C17: every next generation returned by run_simulation, evolved or       *)
(* restarted, holds exactly params.population boards, and never more than  *)
(* the cap M.                                                              *)
C17_PopulationSizePreserved ==
    outcome.kind = "next" =>
        /\ Len(outcome.boards) = params.population
        /\ Len(population) = params.population
        /\ Len(population) <= M

(* C17, the half that holds: no population ever exceeds the cap M.         *)
C17_NeverAboveCap == Len(population) <= M

(* C18: in every generation every cell of every candidate is a digit in   *)
(* 1..N, and every board that is scored, selected as a parent or returned  *)
(* as the solution agrees with the base on every fixed cell, whatever      *)
(* crossover and mutation did to those cells in the children.              *)
C18_DigitsAndFixedCellsKept ==
    /\ \A k \in 1..Len(population) :
          \A i \in 1..size(base), j \in 1..size(base) :
              population[k][i][j] \in 1..size(base)
    /\ \A k \in 1..Len(population) : AgreesWithFixed(base, Scored[k][1])
    /\ \A k \in 1..Len(outcome.survivors) : AgreesWithFixed(base, outcome.survivors[k])
    /\ outcome.kind = "solved" => AgreesWithFixed(base, outcome.solution)

(* C18 witness: a second generation was evolved from survivors that agree  *)
(* with the base, and one of its children got another digit than the       *)
(* base's at the fixed cell (1, 1) by mutation.                            *)
C18_Witness ==
    /\ outcome.kind = "next" /\ ~outcome.restarted /\ generation = 2
    /\ Len(outcome.survivors) >= 1
    /\ base[1][1] = 1
    /\ \E k \in 1..Len(population) : population[k][1][1] = 4

(* C20: for the ordered survivors s[0..k), make_parents yields exactly     *)
(* floor(k/2) pairs, the i-th being (s[2i], s[2i+1]); the pairs use each   *)
(* of the first 2*floor(k/2) survivors once, in order, so no survivor is   *)
(* in two pairs and the last survivor of an odd k is in none.              *)
C20_ParentsPairedByParity ==
    outcome.kind = "paired" =>
        LET s == outcome.survivors
            pairs == outcome.boards
            k == Len(s)
        IN  /\ Len(pairs) = k \div 2
            /\ \A i \in 0..((k \div 2) - 1) :
                  pairs[i + 1] = <<s[(2 * i) + 1], s[(2 * i + 1) + 1]>>
            /\ Flatten(pairs) = SubSeq(s, 1, 2 * (k \div 2))
            /\ k % 2 = 1 => Len(Flatten(pairs)) = k - 1

(* C20 witness: five survivors, no two neighbours alike, paired into two   *)
(* pairs with the fifth left out.                                          *)
C20_Witness ==
    /\ outcome.kind = "paired"
    /\ outcome.survivors = <<GOOD_BOARD, BAD_BOARD, EASY_4_SOLVED, GOOD_BOARD, BAD_BOARD>>
    /\ outcome.boards = <<<<GOOD_BOARD, BAD_BOARD>>, <<EASY_4_SOLVED, GOOD_BOARD>>>>

(* q is the floor of num / den, for a positive den.                        *)
IsFloor(q, num, den) == q * den <= num /\ num < (q + 1) * den

(* C21: the derived counts are survivors = floor(P*s), parent pairs =      *)
(* floor(survivors/2) and children per pair = floor(P / pairs), fixed at   *)
(* construction; an evolved (non-restart) generation is made from          *)
(* survivors many parents and holds pairs x floor(P / pairs) boards.       *)
C21_DerivedCounts ==
    LET P == args.population
        s == args.frac_reduction
    IN  \E pairs \in 1..P :
            /\ IsFloor(params.num_survivors, P * s[1], s[2])
            /\ IsFloor(pairs, params.num_survivors, 2)
            /\ IsFloor(params.num_children_per_parent_pairs, P, pairs)
            /\ (outcome.kind = "next" /\ ~outcome.restarted) =>
                  /\ Len(outcome.survivors) = params.num_survivors
                  /\ Len(outcome.boards) = pairs * params.num_children_per_parent_pairs

(* C21 witness: an evolved generation where the divisions truncate: P = 5  *)
(* with s = 13/16 gives 4 survivors, 2 pairs of 2 children, 4 boards.      *)
C21_Witness ==
    /\ outcome.kind = "next" /\ ~outcome.restarted
    /\ args.population = 5 /\ args.frac_reduction = <<13, RateDen>>
    /\ params.num_survivors = 4 /\ params.num_children_per_parent_pairs = 2
    /\ Len(outcome.survivors) = 4 /\ Len(outcome.boards) = 4

(* C23: the restart check never fails, whatever the configured interval   *)
(* and the generation, and an interval of 0 behaves as no restart: the     *)
(* step returns a generation, and an evolved one.                          *)
C23_RestartCheckNeverFails ==
    /\ outcome.at # "restart"
    /\ (outcome.kind = "next" /\ params.restart = 0) => ~outcome.restarted

(* C23, for the positive intervals: with an interval r >= 1 or none the    *)
(* restart check never fails.                                              *)
C23_PositiveIntervalsNeverFail ==
    (params.restart = NoRestart \/ params.restart >= 1) => outcome.at # "restart"

(* Natural selection was called by the step just taken.                    *)
SelectionCalled ==
    Called /\ (outcome'.at = "selection" \/ (outcome'.kind = "next" /\ ~outcome'.restarted))

(* C5: natural selection on a scored population returns exactly            *)
(* floor(population_size x selection_fraction) survivors, none of which    *)
(* scores more than a discarded candidate.                                 *)
C5_SelectionKeepsTheBest ==
    [][SelectionCalled =>
          /\ outcome'.kind = "next"
          /\ Len(outcome'.survivors) = FloorSurvivors
          /\ SurvivorsAreBest(Scored, outcome'.survivors)]_vars

(* C5, for the calls that return: whenever natural selection does not      *)
(* panic it returns floor(population_size x selection_fraction) survivors, *)
(* none of which scores more than a discarded candidate.                   *)
C5_SelectionWhenReturns ==
    [][(SelectionCalled /\ outcome'.kind = "next") =>
          /\ Len(outcome'.survivors) = FloorSurvivors
          /\ SurvivorsAreBest(Scored, outcome'.survivors)]_vars

(* The first n boards of the scored list sorted ascending by score, equal  *)
(* scores in their input order.                                            *)
StableSurvivors(scored, n) ==
    LET before(m, k) == scored[m][2] < scored[k][2] \/ (scored[m][2] = scored[k][2] /\ m < k)
        rank == [k \in 1..Len(scored) |->
                    1 + Cardinality({m \in 1..Len(scored) : before(m, k)})]
    IN  [i \in 1..n |-> scored[CHOOSE k \in 1..Len(scored) : rank[k] = i][1]]

(* C19: natural selection keeps candidates of equal score in their input   *)
(* order, so the survivors are the first num_survivors entries of the      *)
(* stably sorted scored list, a function of that list alone.               *)
C19_SelectionIsStable ==
    [][(SelectionCalled /\ outcome'.kind = "next") =>
          outcome'.survivors = StableSurvivors(Scored, params.num_survivors)]_vars

(* C6: with mutation_rate = 0 every cell of every child of a pair (X, Y)   *)
(* is the cell of X or of Y at that position, and every child row has N    *)
(* cells.                                                                  *)
C6_CrossoverInheritsCells ==
    (outcome.kind = "next" /\ ~outcome.restarted /\ params.mutation_rate = 0) =>
        ChildrenOfPairs(outcome.boards, outcome.survivors,
                        params.num_children_per_parent_pairs,
                        LAMBDA child, X, Y : Inherited(size(base), child, X, Y))

(* C6 witness: a pair whose parents differ at the blank cell (1, 2) got,   *)
(* without mutation, one child with the digit of X and one with that of Y. *)
C6_Witness ==
    /\ outcome.kind = "next" /\ ~outcome.restarted /\ params.mutation_rate = 0
    /\ Len(outcome.survivors) >= 2 /\ Len(outcome.boards) >= 2
    /\ outcome.survivors[1][1][2] # outcome.survivors[2][1][2]
    /\ outcome.boards[1][1][2] = outcome.survivors[1][1][2]
    /\ outcome.boards[2][1][2] = outcome.survivors[2][1][2]

(* C7: when a restart interval r is configured and the generation is a     *)
(* positive multiple of r, the evolution step returns a fresh random       *)
(* initial population without selection or crossover; otherwise (no        *)
(* interval, generation 0, or not a multiple) it returns the population    *)
(* evolved by selection, pairing and crossover.                            *)
C7_RestartPolicy ==
    [][(Called /\ ~SomeOverlaySolves) =>
          /\ outcome'.kind = "next"
          /\ outcome'.restarted <=> RestartDue
          /\ RestartDue =>
                /\ outcome'.survivors = <<>>
                /\ Boards(outcome'.boards)
                      \in generate_initial_population(size(base), params,
                                                      DriverRnd(params).words)
          /\ ~RestartDue =>
                /\ SurvivorsAreBest(Scored, outcome'.survivors)
                /\ ChildrenOfPairs(outcome'.boards, outcome'.survivors,
                                   params.num_children_per_parent_pairs,
                                   LAMBDA child, X, Y : Len(child) = size(base))]_vars

(* C7, for the steps that return: the restart policy above holds whenever  *)
(* the evolution step does not panic.                                      *)
C7_PolicyWhenReturns ==
    [][(Called /\ ~SomeOverlaySolves /\ outcome'.kind # "panic") =>
          /\ outcome'.kind = "next"
          /\ outcome'.restarted <=> RestartDue
          /\ RestartDue =>
                /\ outcome'.survivors = <<>>
                /\ Boards(outcome'.boards)
                      \in generate_initial_population(size(base), params,
                                                      DriverRnd(params).words)
          /\ ~RestartDue =>
                /\ SurvivorsAreBest(Scored, outcome'.survivors)
                /\ ChildrenOfPairs(outcome'.boards, outcome'.survivors,
                                   params.num_children_per_parent_pairs,
                                   LAMBDA child, X, Y : Len(child) = size(base))]_vars

====
